---- MODULE Spec2Model ----
(***************************************************************************)
(* Buffer pool of GGDB: BufferPoolManager (fetch_page / unpin_page), the   *)
(* RAII guard PageFrameRef, and the ClockReplacer (second chance).         *)
(*                                                                         *)
(* Spec        the pool driven by fetch_page calls and guard drops         *)
(* HistSpec    Spec, remembering the frame each page id was last given     *)
(* ApiSpec     the pool driven by fetch_page and direct unpin_page calls   *)
(* VictimSpec  ClockReplacer::victim applied to arbitrary frame arrays     *)
(* SpecVictim  both of the above                                           *)
(* ConcSpec    threads calling fetch_page / dropping guards, statement by  *)
(*             statement, under the pool mutex                             *)
(* ConcFairSpec ConcSpec with a fair mutex and scheduler                    *)
(* AllocSpec   one Page, fresh, under allocate calls                       *)
(* PageOpsSpec one Page under allocate, write_at and reset                 *)
(* PageSpec    one Page under all of its mutating operations               *)
(*                                                                         *)
(* pool_size is at least 1: with pool_size = 0 the first fetch_page indexes *)
(* an empty frame array in victim and panics.  pin_count is a u32; the      *)
(* number of live guards is capped by MaxGuards, far below 2^32, so the     *)
(* increment in the hit path never overflows here.                          *)
(***************************************************************************)
EXTENDS Integers, Sequences, FiniteSets, TLC

VARIABLES pool_size, frames, page_mapping, free_list, hand, guards, ret,
          last_fetch, harness, lock, pc, arg, local, snap, page, pret

poolVars == <<frames, page_mapping, free_list, hand>>
concVars == <<lock, pc, arg, local, snap>>
pageVars == <<page, pret>>
vars == <<pool_size, frames, page_mapping, free_list, hand, guards, ret,
          last_fetch, harness, lock, pc, arg, local, snap, page, pret>>

\* ---------------------------------------------------------------- bounds
MaxPool == 3
MaxPage == 2
MaxGuards == 2
MaxConcPool == 1
MaxApiPool == 2
MaxPin == 1
MaxPointer == 16384
NumThreads == 2

PageIds == 0..MaxPage
Threads == 1..NumThreads
FrameIds == 0..(pool_size - 1)

\* Option::None for Option<PageId> / Option<FrameId>
None == -1

\* ------------------------------------------------------------------ Page
\* Page::new: runtime metadata of a fresh page
PageNew(page_id) ==
  [page_id |-> page_id, is_dirty |-> FALSE, pin_count |-> 0, ref_bit |-> TRUE]

\* impl Default for Page
PageDefault == PageNew(0)

\* --------------------------------------------- Page: buffer and header
\* page_constants.rs
PAGE_SIZE == 8192
HEADER_SIZE == 32

\* enum PageType, #[repr(u16)]
NodeStore == 0
Relationship == 1
PropertyStore == 2
PageTypes == {NodeStore, Relationship, PropertyStore}

\* An unsigned integer field is kept as the sequence of its bytes in memory,
\* least significant first (the header is a reinterpretation of the buffer,
\* page.rs:83-93, on a little-endian target): u64 and u32 values do not fit
\* the checker's integers.
RECURSIVE ToLE(_, _)
ToLE(n, k) == IF k = 0 THEN <<>> ELSE <<n % 256>> \o ToLE(n \div 256, k - 1)

\* value of a field whose bytes above the second are zero
Val16(bs) == bs[1] + 256 * bs[2]
Small(bs) == \A k \in 3..Len(bs) : bs[k] = 0

\* wrapping addition of n to a field (the carry out of the last byte is lost)
RECURSIVE AddLE(_, _)
AddLE(bs, n) ==
  IF bs = <<>> THEN <<>>
  ELSE <<(Head(bs) + n) % 256>> \o AddLE(Tail(bs), (Head(bs) + n) \div 256)

\* data: [u8; PAGE_SIZE], kept as the map of its non-zero bytes
Byte(d, i) == IF i \in DOMAIN d THEN d[i] ELSE 0
Bytes(d, off, n) == [k \in 1..n |-> Byte(d, off + k - 1)]

\* self.data[start..end].copy_from_slice(bytes)
copy_from_slice(d, start, bytes) ==
  LET written == {start + k - 1 : k \in 1..Len(bytes)}
      new(i) == IF i \in written THEN bytes[i - start + 1] ELSE d[i] IN
  [i \in {j \in DOMAIN d \cup written : new(j) # 0} |-> new(i)]

\* struct PageHeader, #[repr(C)]: field offsets 0, 8, 16, 20, 24, 28, 30
get_header(d) ==
  [lsn |-> Bytes(d, 0, 8), page_id |-> Bytes(d, 8, 8),
   checksum |-> Bytes(d, 16, 4), free_space_pointer |-> Bytes(d, 20, 4),
   item_count |-> Bytes(d, 24, 4), page_type |-> Bytes(d, 28, 2),
   padding |-> Bytes(d, 30, 2)]

\* Page::write_header
write_header(d, h) ==
  copy_from_slice(d, 0, h.lsn \o h.page_id \o h.checksum
                        \o h.free_space_pointer \o h.item_count
                        \o h.page_type \o h.padding)

\* PageHeader::new
PageHeader_new(page_id, page_type) ==
  [lsn |-> ToLE(0, 8), page_id |-> page_id, checksum |-> ToLE(0, 4),
   free_space_pointer |-> ToLE(HEADER_SIZE, 4), item_count |-> ToLE(0, 4),
   page_type |-> page_type, padding |-> ToLE(0, 2)]

\* Page::new, buffer included
Page_new(page_id, page_type) ==
  [data |-> write_header(<<>>, PageHeader_new(page_id, page_type)),
   page_id |-> page_id, is_dirty |-> FALSE, pin_count |-> 0,
   ref_bit |-> TRUE]

\* Page::get_free_space_pointer
get_free_space_pointer(p) == get_header(p.data).free_space_pointer

\* the free-space pointer is at most PAGE_SIZE
InPage(fsp) == Small(fsp) /\ Val16(fsp) <= PAGE_SIZE

\* Page::allocate that returns the pointer after the advance
allocate_newptr(p, size) ==
  LET fsp == get_free_space_pointer(p)
      moved == [p EXCEPT !.data = copy_from_slice(p.data, 20,
                                                  AddLE(fsp, size))] IN
  IF InPage(fsp)
  THEN IF PAGE_SIZE - Val16(fsp) >= size
       THEN {[page |-> moved, ok |-> TRUE, result |-> AddLE(fsp, size),
              panicked |-> FALSE]}
       ELSE {[page |-> p, ok |-> FALSE, result |-> <<>>,
              panicked |-> FALSE]}
  ELSE {[page |-> p, ok |-> FALSE, result |-> <<>>, panicked |-> TRUE],
        [page |-> moved, ok |-> TRUE, result |-> AddLE(fsp, size),
         panicked |-> FALSE]}

\* Page::allocate (with has_room and get_free_space): the set of outcomes.
\* size is below 2^16 here, so `size as u32` is size.  With the pointer
\* above PAGE_SIZE the subtraction in get_free_space underflows: a build
\* with overflow checks panics, one without wraps to a value near 2^64,
\* has_room holds and the pointer advances modulo 2^32.
allocate(p, size) ==
  LET fsp == get_free_space_pointer(p)
      moved == [p EXCEPT !.data = copy_from_slice(p.data, 20,
                                                  AddLE(fsp, size))] IN
  IF InPage(fsp)
  THEN IF PAGE_SIZE - Val16(fsp) >= size
       THEN {[page |-> moved, ok |-> TRUE, result |-> fsp,
              panicked |-> FALSE]}
       ELSE {[page |-> p, ok |-> FALSE, result |-> <<>>,
              panicked |-> FALSE]}
  ELSE {[page |-> p, ok |-> FALSE, result |-> <<>>, panicked |-> TRUE],
        [page |-> moved, ok |-> TRUE, result |-> fsp, panicked |-> FALSE]}

\* Page::write_at
write_at(p, offset, bytes) ==
  IF offset + Len(bytes) > PAGE_SIZE
  THEN [page |-> p, ok |-> FALSE]
  ELSE [page |-> [p EXCEPT !.data = copy_from_slice(p.data, offset, bytes),
                           !.is_dirty = TRUE],
        ok |-> TRUE]

\* Page::reset that leaves the buffer behind the header as it is
reset_keepdata(p) ==
  LET h == get_header(p.data) IN
  {[data |-> write_header(p.data, PageHeader_new(h.page_id, page_type)),
    page_id |-> h.page_id, is_dirty |-> FALSE, pin_count |-> 0,
    ref_bit |-> FALSE] :
     page_type \in IF Small(h.page_type) /\ Val16(h.page_type) \in PageTypes
                   THEN {h.page_type}
                   ELSE {h.page_type} \cup {ToLE(t, 2) : t \in PageTypes}}

\* Page::reset: the set of outcomes.  Line 198 copies the page_type field
\* out of the buffer as a PageType; when the two bytes hold no PageType
\* discriminant that read is undefined behaviour, and the tag written back
\* is the stored one or any valid one.
reset(p) ==
  LET h == get_header(p.data) IN
  {[data |-> write_header(<<>>, PageHeader_new(h.page_id, page_type)),
    page_id |-> h.page_id, is_dirty |-> FALSE, pin_count |-> 0,
    ref_bit |-> FALSE] :
     page_type \in IF Small(h.page_type) /\ Val16(h.page_type) \in PageTypes
                   THEN {h.page_type}
                   ELSE {h.page_type} \cup {ToLE(t, 2) : t \in PageTypes}}

\* Page::set_page_id
set_page_id(p, page_id) ==
  [p EXCEPT !.page_id = page_id,
            !.data = copy_from_slice(p.data, 8, page_id)]

\* Page::set_lsn
set_lsn(p, lsn) == [p EXCEPT !.data = copy_from_slice(p.data, 0, lsn)]

\* Page::set_free_space_pointer
set_free_space_pointer(p, pointer) ==
  [p EXCEPT !.data = copy_from_slice(p.data, 20, pointer)]

\* Page::set_pin_count
set_pin_count(p, count) == [p EXCEPT !.pin_count = count]

\* Page::set_dirty
set_dirty(p, dirty) == [p EXCEPT !.is_dirty = dirty]

\* Page::pin
pin(p) == [p EXCEPT !.pin_count = @ + 1]

\* Page::unpin (called with pin_count > 0; the assert aborts otherwise)
unpin(p) == [p EXCEPT !.pin_count = @ - 1]

\* no Page operation has been called
NoPRet == [op |-> "new", arg |-> 0, ok |-> TRUE, result |-> <<>>,
           panicked |-> FALSE, total |-> 0,
           pre |-> Page_new(ToLE(0, 8), ToLE(NodeStore, 2))]

\* the pool runs do not look into a page's buffer
PageIdle ==
  /\ page = Page_new(ToLE(0, 8), ToLE(NodeStore, 2))
  /\ pret = NoPRet

\* --------------------------------------------------------- ClockReplacer
\* ClockReplacer::advance
advance(h, size) == (h + 1) % size

\* ClockReplacer::victim: the loop, one iteration per unfolding.
\* n counts the frames inspected so far.
RECURSIVE VictimLoop(_, _, _, _, _)
VictimLoop(fr, h, start_hand, size, n) ==
  IF fr[h].pin_count > 0
  THEN LET h2 == advance(h, size) IN
       IF h2 = start_hand
       THEN [frames |-> fr, hand |-> h2, result |-> None, inspected |-> n + 1]
       ELSE VictimLoop(fr, h2, start_hand, size, n + 1)
  ELSE IF fr[h].ref_bit
       THEN VictimLoop([fr EXCEPT ![h].ref_bit = FALSE], advance(h, size),
                       start_hand, size, n + 1)
       ELSE [frames |-> fr, hand |-> advance(h, size), result |-> h,
             inspected |-> n + 1]

\* victim without the "skip pinned pages" branch
RECURSIVE VictimLoopNoPin(_, _, _, _, _)
VictimLoopNoPin(fr, h, start_hand, size, n) ==
  IF fr[h].ref_bit
  THEN VictimLoopNoPin([fr EXCEPT ![h].ref_bit = FALSE], advance(h, size),
                       start_hand, size, n + 1)
  ELSE [frames |-> fr, hand |-> advance(h, size), result |-> h,
        inspected |-> n + 1]

victim_nopin(fr, h, size) == VictimLoopNoPin(fr, h, h, size, 0)

\* victim that does not move the hand past the frame it returns
RECURSIVE VictimLoopNoAdvance(_, _, _, _, _)
VictimLoopNoAdvance(fr, h, start_hand, size, n) ==
  IF fr[h].pin_count > 0
  THEN LET h2 == advance(h, size) IN
       IF h2 = start_hand
       THEN [frames |-> fr, hand |-> h2, result |-> None, inspected |-> n + 1]
       ELSE VictimLoopNoAdvance(fr, h2, start_hand, size, n + 1)
  ELSE IF fr[h].ref_bit
       THEN VictimLoopNoAdvance([fr EXCEPT ![h].ref_bit = FALSE],
                                advance(h, size), start_hand, size, n + 1)
       ELSE [frames |-> fr, hand |-> h, result |-> h, inspected |-> n + 1]

victim_noadvance(fr, h, size) == VictimLoopNoAdvance(fr, h, h, size, 0)

\* victim that clears the reference bit before it looks at the pin count
RECURSIVE VictimLoopClearPinned(_, _, _, _, _)
VictimLoopClearPinned(fr, h, start_hand, size, n) ==
  IF fr[h].pin_count > 0
  THEN LET h2 == advance(h, size)
           fr2 == [fr EXCEPT ![h].ref_bit = FALSE] IN
       IF h2 = start_hand
       THEN [frames |-> fr2, hand |-> h2, result |-> None, inspected |-> n + 1]
       ELSE VictimLoopClearPinned(fr2, h2, start_hand, size, n + 1)
  ELSE IF fr[h].ref_bit
       THEN VictimLoopClearPinned([fr EXCEPT ![h].ref_bit = FALSE],
                                  advance(h, size), start_hand, size, n + 1)
       ELSE [frames |-> fr, hand |-> advance(h, size), result |-> h,
             inspected |-> n + 1]

victim_clearpinned(fr, h, size) == VictimLoopClearPinned(fr, h, h, size, 0)

\* victim that gives up with the hand on the last frame it looked at
RECURSIVE VictimLoopStop(_, _, _, _, _)
VictimLoopStop(fr, h, start_hand, size, n) ==
  IF fr[h].pin_count > 0
  THEN LET h2 == advance(h, size) IN
       IF h2 = start_hand
       THEN [frames |-> fr, hand |-> h, result |-> None, inspected |-> n + 1]
       ELSE VictimLoopStop(fr, h2, start_hand, size, n + 1)
  ELSE IF fr[h].ref_bit
       THEN VictimLoopStop([fr EXCEPT ![h].ref_bit = FALSE], advance(h, size),
                           start_hand, size, n + 1)
       ELSE [frames |-> fr, hand |-> advance(h, size), result |-> h,
             inspected |-> n + 1]

victim_stop(fr, h, size) == VictimLoopStop(fr, h, h, size, 0)

\* victim that takes an unpinned frame only from its third sweep on
RECURSIVE VictimLoopThird(_, _, _, _, _)
VictimLoopThird(fr, h, start_hand, size, n) ==
  IF fr[h].pin_count > 0
  THEN LET h2 == advance(h, size) IN
       IF h2 = start_hand
       THEN [frames |-> fr, hand |-> h2, result |-> None, inspected |-> n + 1]
       ELSE VictimLoopThird(fr, h2, start_hand, size, n + 1)
  ELSE IF fr[h].ref_bit \/ n < 2 * size
       THEN VictimLoopThird([fr EXCEPT ![h].ref_bit = FALSE], advance(h, size),
                            start_hand, size, n + 1)
       ELSE [frames |-> fr, hand |-> advance(h, size), result |-> h,
             inspected |-> n + 1]

victim_third(fr, h, size) == VictimLoopThird(fr, h, h, size, 0)

victim(fr, h, size) == VictimLoop(fr, h, h, size, 0)

\* ----------------------------------------------------- BufferPoolManager
\* the pool state guarded by the mutex, as one value
PoolState == [frames |-> frames, page_mapping |-> page_mapping,
              free_list |-> free_list, hand |-> hand]

\* HashMap::remove / HashMap::insert on page_mapping
MapRemove(m, p) == [q \in (DOMAIN m) \ {p} |-> m[q]]
MapInsert(m, p, f) == [q \in (DOMAIN m) \cup {p} |-> IF q = p THEN f ELSE m[q]]

\* find_free_frame that hands out the frame under the hand when the clock
\* finds no victim
find_free_frame_fallback(s, size) ==
  IF s.free_list # <<>>
  THEN [state |-> [s EXCEPT !.free_list = Tail(s.free_list)],
        result |-> Head(s.free_list), kind |-> "free", inspected |-> 0]
  ELSE LET v == victim(s.frames, s.hand, size) IN
       [state |-> [s EXCEPT !.frames = v.frames, !.hand = v.hand],
        result |-> IF v.result = None THEN v.hand ELSE v.result,
        kind |-> "victim", inspected |-> v.inspected]

\* find_free_frame that takes the free list from the back
find_free_frame_popback(s, size) ==
  IF s.free_list # <<>>
  THEN [state |-> [s EXCEPT !.free_list =
                      SubSeq(s.free_list, 1, Len(s.free_list) - 1)],
        result |-> s.free_list[Len(s.free_list)], kind |-> "free",
        inspected |-> 0]
  ELSE LET v == victim(s.frames, s.hand, size) IN
       [state |-> [s EXCEPT !.frames = v.frames, !.hand = v.hand],
        result |-> v.result,
        kind |-> IF v.result = None THEN "none" ELSE "victim",
        inspected |-> v.inspected]

\* find_free_frame that works on a copy of the frames and keeps the copy
\* only when the clock found a victim
find_free_frame_discard(s, size) ==
  IF s.free_list # <<>>
  THEN [state |-> [s EXCEPT !.free_list = Tail(s.free_list)],
        result |-> Head(s.free_list), kind |-> "free", inspected |-> 0]
  ELSE LET v == victim(s.frames, s.hand, size) IN
       IF v.result = None
       THEN [state |-> s, result |-> None, kind |-> "none",
             inspected |-> v.inspected]
       ELSE [state |-> [s EXCEPT !.frames = v.frames, !.hand = v.hand],
             result |-> v.result, kind |-> "victim",
             inspected |-> v.inspected]

\* BufferPoolManager::find_free_frame
find_free_frame(s, size) ==
  IF s.free_list # <<>>
  THEN [state |-> [s EXCEPT !.free_list = Tail(s.free_list)],
        result |-> Head(s.free_list), kind |-> "free", inspected |-> 0]
  ELSE LET v == victim(s.frames, s.hand, size) IN
       [state |-> [s EXCEPT !.frames = v.frames, !.hand = v.hand],
        result |-> v.result,
        kind |-> IF v.result = None THEN "none" ELSE "victim",
        inspected |-> v.inspected]

\* miss path that leaves the old page's mapping entry in place
fetch_miss_keepold(s, page_id, frame_id) ==
  [s EXCEPT !.frames[frame_id].page_id = page_id,
            !.frames[frame_id].pin_count = 1,
            !.frames[frame_id].is_dirty = FALSE,
            !.page_mapping = MapInsert(s.page_mapping, page_id, frame_id)]

\* BufferPoolManager::fetch_page: miss path once a frame was found
fetch_miss(s, page_id, frame_id) ==
  LET old_page_id == s.frames[frame_id].page_id
      m1 == IF old_page_id # None
            THEN MapRemove(s.page_mapping, old_page_id)
            ELSE s.page_mapping
  IN [s EXCEPT !.frames[frame_id].page_id = page_id,
               !.frames[frame_id].pin_count = 1,
               !.frames[frame_id].is_dirty = FALSE,
               !.page_mapping = MapInsert(m1, page_id, frame_id)]

\* BufferPoolManager::fetch_page: hit path
fetch_hit(s, frame_id) ==
  [s EXCEPT !.frames[frame_id].pin_count = @ + 1,
            !.frames[frame_id].ref_bit = TRUE]

\* BufferPoolManager::fetch_page as one transition of the pool state
fetch_page(s, page_id, size) ==
  IF page_id \in DOMAIN s.page_mapping
  THEN [state |-> fetch_hit(s, s.page_mapping[page_id]),
        result |-> s.page_mapping[page_id], kind |-> "hit", inspected |-> 0]
  ELSE LET ff == find_free_frame(s, size) IN
       IF ff.result = None
       THEN ff
       ELSE [ff EXCEPT !.state = fetch_miss(ff.state, page_id, ff.result)]

\* unpin_page without the "pin_count > 0" test
unpin_page_nofloor(s, page_id, is_dirty) ==
  IF page_id \in DOMAIN s.page_mapping
  THEN LET frame_id == s.page_mapping[page_id]
       IN [s EXCEPT !.frames[frame_id].pin_count = @ - 1,
                    !.frames[frame_id].is_dirty = IF is_dirty THEN TRUE ELSE @]
  ELSE s

\* BufferPoolManager::unpin_page as one transition of the pool state
unpin_page(s, page_id, is_dirty) ==
  IF page_id \in DOMAIN s.page_mapping
  THEN LET frame_id == s.page_mapping[page_id]
           cnt == s.frames[frame_id].pin_count
       IN [s EXCEPT !.frames[frame_id].pin_count =
                       IF cnt > 0 THEN cnt - 1 ELSE cnt,
                    !.frames[frame_id].is_dirty = IF is_dirty THEN TRUE ELSE @]
  ELSE s

\* ------------------------------------------------------------ guards
\* live PageFrameRef values, as a multiset of (page_id, frame_index)
NoGuards == [g \in PageIds \X (0..(MaxPool - 1)) |-> 0]

RECURSIVE SumOver(_, _)
SumOver(f, S) ==
  IF S = {} THEN 0
  ELSE LET x == CHOOSE y \in S : TRUE IN f[x] + SumOver(f, S \ {x})

LiveGuards == SumOver(guards, DOMAIN guards)

\* number of live guards bound to frame f
GuardsOn(f) == SumOver(guards, {g \in DOMAIN guards : g[2] = f})

\* ------------------------------------------------------------- actions
\* the frame array and hand a victim call started from (replacer runs only)
NoPre == [frames |-> <<>>, hand |-> 0]

\* no thread is inside a call and the mutex is free
NoThread == 0
NoSnap == [frames |-> <<>>, page_mapping |-> <<>>, free_list |-> <<>>,
           hand |-> 0]
ConcIdle ==
  /\ lock = NoThread
  /\ pc = [t \in Threads |-> "idle"]
  /\ arg = [t \in Threads |-> None]
  /\ local = [t \in Threads |-> None]
  /\ snap = NoSnap

\* BufferPoolManager::new(pool_size)
Init ==
  /\ pool_size \in 1..MaxPool
  /\ frames = [f \in 0..(pool_size - 1) |-> PageDefault]
  /\ page_mapping = <<>>
  /\ free_list = [i \in 1..pool_size |-> i - 1]
  /\ hand = 0
  /\ guards = NoGuards
  /\ ret = [op |-> "new", page_id |-> None, result |-> None, kind |-> "none",
            prev |-> None, pre_pin |-> 0, all_pinned |-> FALSE,
            pre_free |-> 0, mapped |-> FALSE, inspected |-> 0, pre |-> NoPre]
  /\ last_fetch = [p \in PageIds |-> None]
  /\ harness = FALSE
  /\ ConcIdle
  /\ PageIdle

\* a caller invokes fetch_page(page_id) and keeps the guard it gets
FetchPageStep(page_id) ==
  /\ ~harness
  /\ LET r == fetch_page(PoolState, page_id, pool_size) IN
     /\ LiveGuards + (IF r.result = None THEN 0 ELSE 1) <= MaxGuards
     /\ frames' = r.state.frames
     /\ page_mapping' = r.state.page_mapping
     /\ free_list' = r.state.free_list
     /\ hand' = r.state.hand
     /\ guards' = IF r.result = None THEN guards
                  ELSE [guards EXCEPT ![<<page_id, r.result>>] = @ + 1]
     /\ ret' = [op |-> "fetch", page_id |-> page_id, result |-> r.result,
                kind |-> r.kind, prev |-> last_fetch[page_id],
                pre_pin |-> IF r.result = None THEN 0
                            ELSE frames[r.result].pin_count,
                all_pinned |-> \A f \in FrameIds : frames[f].pin_count > 0,
                pre_free |-> Len(free_list),
                mapped |-> page_id \in DOMAIN page_mapping,
                inspected |-> 0, pre |-> NoPre]
  /\ UNCHANGED <<pool_size, harness, concVars, pageVars>>

FetchPage(page_id) ==
  /\ FetchPageStep(page_id)
  /\ UNCHANGED last_fetch

\* fetch_page(page_id), remembering for each page id the frame of the guard
\* its latest fetch returned; an eviction (a miss served by the clock)
\* forgets the frames remembered for the other page ids
FetchPageTracked(page_id) ==
  /\ FetchPageStep(page_id)
  /\ LET r == fetch_page(PoolState, page_id, pool_size) IN
     last_fetch' =
       IF r.kind = "victim"
       THEN [p \in PageIds |-> IF p = page_id THEN r.result ELSE None]
       ELSE IF r.result = None THEN last_fetch
       ELSE [last_fetch EXCEPT ![page_id] = r.result]

\* impl Drop for PageFrameRef: a live guard goes out of scope
DropGuard(g) ==
  /\ ~harness
  /\ guards[g] > 0
  /\ LET s == unpin_page(PoolState, g[1], FALSE) IN
     /\ frames' = s.frames
     /\ page_mapping' = s.page_mapping
     /\ free_list' = s.free_list
     /\ hand' = s.hand
  /\ guards' = [guards EXCEPT ![g] = @ - 1]
  /\ ret' = [op |-> "drop", page_id |-> None, result |-> None, kind |-> "none",
             prev |-> None, pre_pin |-> 0, all_pinned |-> FALSE,
             pre_free |-> 0, mapped |-> FALSE, inspected |-> 0, pre |-> NoPre]
  /\ UNCHANGED <<pool_size, last_fetch, harness, concVars, pageVars>>

Next ==
  \/ \E page_id \in PageIds : FetchPage(page_id)
  \/ \E g \in DOMAIN guards : DropGuard(g)

Spec == Init /\ [][Next]_vars

\* the same pool, with the history of returned frames kept in last_fetch
HNext ==
  \/ \E page_id \in PageIds : FetchPageTracked(page_id)
  \/ \E g \in DOMAIN guards : DropGuard(g)

HistSpec == Init /\ [][HNext]_vars

\* ------------------------------- fetch_page and unpin_page called directly
\* sum of the pin counts of all frames
RECURSIVE SumPinsUpTo(_)
SumPinsUpTo(n) ==
  IF n = 0 THEN 0 ELSE frames[n - 1].pin_count + SumPinsUpTo(n - 1)

SumPins == SumPinsUpTo(pool_size)

\* fetch_page(page_id); the caller keeps the pin and releases it later, if
\* at all, through unpin_page
ApiFetchPage(page_id) ==
  /\ ~harness
  /\ LET r == fetch_page(PoolState, page_id, pool_size) IN
     /\ SumPins + (IF r.result = None THEN 0 ELSE 1) <= MaxGuards
     /\ frames' = r.state.frames
     /\ page_mapping' = r.state.page_mapping
     /\ free_list' = r.state.free_list
     /\ hand' = r.state.hand
     /\ ret' = [op |-> "fetch", page_id |-> page_id, result |-> r.result,
                kind |-> r.kind, prev |-> None,
                pre_pin |-> IF r.result = None THEN 0
                            ELSE frames[r.result].pin_count,
                all_pinned |-> \A f \in FrameIds : frames[f].pin_count > 0,
                pre_free |-> Len(free_list),
                mapped |-> page_id \in DOMAIN page_mapping,
                inspected |-> 0, pre |-> NoPre]
  /\ UNCHANGED <<pool_size, guards, last_fetch, harness, concVars, pageVars>>

\* unpin_page(page_id, is_dirty), for any page id and as often as the caller
\* likes
UnpinPage(page_id, is_dirty) ==
  /\ ~harness
  /\ LET s == unpin_page(PoolState, page_id, is_dirty) IN
     /\ frames' = s.frames
     /\ page_mapping' = s.page_mapping
     /\ free_list' = s.free_list
     /\ hand' = s.hand
  /\ ret' = [op |-> "unpin", page_id |-> page_id,
             result |-> IF page_id \in DOMAIN page_mapping
                        THEN page_mapping[page_id] ELSE None,
             kind |-> IF is_dirty THEN "dirty" ELSE "clean", prev |-> None,
             pre_pin |-> IF page_id \in DOMAIN page_mapping
                         THEN frames[page_mapping[page_id]].pin_count ELSE 0,
             all_pinned |-> FALSE, pre_free |-> 0,
             mapped |-> page_id \in DOMAIN page_mapping,
             inspected |-> 0, pre |-> NoPre]
  /\ UNCHANGED <<pool_size, guards, last_fetch, harness, concVars, pageVars>>

\* BufferPoolManager::new(pool_size)
ApiInit ==
  /\ pool_size \in 1..MaxApiPool
  /\ frames = [f \in 0..(pool_size - 1) |-> PageDefault]
  /\ page_mapping = <<>>
  /\ free_list = [i \in 1..pool_size |-> i - 1]
  /\ hand = 0
  /\ guards = NoGuards
  /\ ret = [op |-> "new", page_id |-> None, result |-> None, kind |-> "none",
            prev |-> None, pre_pin |-> 0, all_pinned |-> FALSE,
            pre_free |-> 0, mapped |-> FALSE, inspected |-> 0, pre |-> NoPre]
  /\ last_fetch = [p \in PageIds |-> None]
  /\ harness = FALSE
  /\ ConcIdle
  /\ PageIdle

ApiNext ==
  \/ \E page_id \in PageIds : ApiFetchPage(page_id)
  \/ \E page_id \in PageIds, is_dirty \in BOOLEAN : UnpinPage(page_id, is_dirty)

ApiSpec == ApiInit /\ [][ApiNext]_vars

\* ------------------------------------------- the replacer on its own
\* any frame array of pool_size pages and any hand position
VInit ==
  /\ pool_size \in 1..MaxPool
  /\ frames \in [0..(pool_size - 1) ->
                  [page_id : {None}, is_dirty : BOOLEAN,
                   pin_count : {0, 1, MaxGuards}, ref_bit : BOOLEAN]]
  /\ hand \in 0..(pool_size - 1)
  /\ page_mapping = <<>>
  /\ free_list = <<>>
  /\ guards = NoGuards
  /\ ret = [op |-> "new", page_id |-> None, result |-> None, kind |-> "none",
            prev |-> None, pre_pin |-> 0, all_pinned |-> FALSE,
            pre_free |-> 0, mapped |-> FALSE, inspected |-> 0, pre |-> NoPre]
  /\ last_fetch = [p \in PageIds |-> None]
  /\ harness = TRUE
  /\ ConcIdle
  /\ PageIdle

\* ClockReplacer::victim(&mut frames)
VictimCall ==
  /\ harness
  /\ LET v == victim(frames, hand, pool_size) IN
     /\ frames' = v.frames
     /\ hand' = v.hand
     /\ ret' = [op |-> "victim", page_id |-> None, result |-> v.result,
                kind |-> IF v.result = None THEN "none" ELSE "victim",
                prev |-> None, pre_pin |-> 0,
                all_pinned |-> \A f \in FrameIds : frames[f].pin_count > 0,
                pre_free |-> 0, mapped |-> FALSE, inspected |-> v.inspected,
                pre |-> [frames |-> frames, hand |-> hand]]
  /\ UNCHANGED <<pool_size, page_mapping, free_list, guards, last_fetch,
                 harness, concVars, pageVars>>

VNext == VictimCall

VictimSpec == VInit /\ [][VNext]_vars

\* the pool and the replacer on its own, side by side
SVInit == Init \/ VInit

SVNext ==
  \/ \E page_id \in PageIds : FetchPage(page_id)
  \/ \E g \in DOMAIN guards : DropGuard(g)
  \/ VictimCall

SpecVictim == SVInit /\ [][SVNext]_vars

\* --------------------------------------- threads under the pool mutex
\* Mutex::lock returns once no other thread holds the mutex
\* a lock that never waits
CanLockAlways(t) == TRUE
CanLock(t) == lock = NoThread

\* BufferPoolManager::new(pool_size), shared by NumThreads threads
CInit ==
  /\ pool_size \in 1..MaxConcPool
  /\ frames = [f \in 0..(pool_size - 1) |-> PageDefault]
  /\ page_mapping = <<>>
  /\ free_list = [i \in 1..pool_size |-> i - 1]
  /\ hand = 0
  /\ guards = NoGuards
  /\ ret = [op |-> "new", page_id |-> None, result |-> None, kind |-> "none",
            prev |-> None, pre_pin |-> 0, all_pinned |-> FALSE,
            pre_free |-> 0, mapped |-> FALSE, inspected |-> 0, pre |-> NoPre]
  /\ last_fetch = [p \in PageIds |-> None]
  /\ harness = FALSE
  /\ ConcIdle
  /\ PageIdle

\* thread t enters fetch_page(page_id)
CFetchCall(t, page_id) ==
  /\ pc[t] = "idle"
  /\ LiveGuards < MaxGuards
  /\ pc' = [pc EXCEPT ![t] = "f_lock"]
  /\ arg' = [arg EXCEPT ![t] = page_id]
  /\ UNCHANGED <<pool_size, poolVars, guards, ret, last_fetch, harness, lock,
                 local, snap, pageVars>>

\* thread t drops guard g: Drop for PageFrameRef enters unpin_page(g.page_id, false)
CDropCall(t, g) ==
  /\ pc[t] = "idle"
  /\ guards[g] > 0
  /\ guards' = [guards EXCEPT ![g] = @ - 1]
  /\ pc' = [pc EXCEPT ![t] = "u_lock"]
  /\ arg' = [arg EXCEPT ![t] = g[1]]
  /\ UNCHANGED <<pool_size, poolVars, ret, last_fetch, harness, lock, local,
                 snap, pageVars>>

\* let mut state = self.state.lock().unwrap()
CLock(t) ==
  /\ pc[t] \in {"f_lock", "u_lock"}
  /\ CanLock(t)
  /\ lock' = t
  /\ snap' = PoolState
  /\ pc' = [pc EXCEPT ![t] = IF pc[t] = "f_lock" THEN "f_lookup" ELSE "u_body"]
  /\ UNCHANGED <<pool_size, poolVars, guards, ret, last_fetch, harness, arg,
                 local, pageVars>>

\* fetch_page: state.page_mapping.get(&page_id)
CFetchLookup(t) ==
  /\ pc[t] = "f_lookup"
  /\ IF arg[t] \in DOMAIN page_mapping
     THEN /\ local' = [local EXCEPT ![t] = page_mapping[arg[t]]]
          /\ pc' = [pc EXCEPT ![t] = "f_hit"]
     ELSE /\ local' = local
          /\ pc' = [pc EXCEPT ![t] = "f_find"]
  /\ UNCHANGED <<pool_size, poolVars, guards, ret, last_fetch, harness, lock,
                 arg, snap, pageVars>>

\* fetch_page: the hit branch
CFetchHit(t) ==
  /\ pc[t] = "f_hit"
  /\ frames' = fetch_hit(PoolState, local[t]).frames
  /\ pc' = [pc EXCEPT ![t] = "f_ret"]
  /\ UNCHANGED <<pool_size, page_mapping, free_list, hand, guards, ret,
                 last_fetch, harness, lock, arg, local, snap, pageVars>>

\* a fetch_page that, holding the mutex, waits until a frame can be had
CFetchFindWait(t) ==
  /\ pc[t] = "f_find"
  /\ LET ff == find_free_frame(PoolState, pool_size) IN
     /\ ff.result # None
     /\ frames' = ff.state.frames
     /\ free_list' = ff.state.free_list
     /\ hand' = ff.state.hand
     /\ local' = [local EXCEPT ![t] = ff.result]
     /\ pc' = [pc EXCEPT ![t] = "f_evict"]
  /\ UNCHANGED <<pool_size, page_mapping, guards, ret, last_fetch, harness,
                 lock, arg, snap, pageVars>>

\* fetch_page: let frame_id = self.find_free_frame(&mut state)?
CFetchFind(t) ==
  /\ pc[t] = "f_find"
  /\ LET ff == find_free_frame(PoolState, pool_size) IN
     /\ frames' = ff.state.frames
     /\ free_list' = ff.state.free_list
     /\ hand' = ff.state.hand
     /\ local' = [local EXCEPT ![t] = ff.result]
     /\ pc' = [pc EXCEPT ![t] = IF ff.result = None THEN "f_ret" ELSE "f_evict"]
  /\ UNCHANGED <<pool_size, page_mapping, guards, ret, last_fetch, harness,
                 lock, arg, snap, pageVars>>

\* fetch_page: removal of the old page's mapping entry
CFetchEvict(t) ==
  /\ pc[t] = "f_evict"
  /\ LET old_page_id == frames[local[t]].page_id IN
     page_mapping' = IF old_page_id # None
                     THEN MapRemove(page_mapping, old_page_id)
                     ELSE page_mapping
  /\ pc' = [pc EXCEPT ![t] = "f_meta"]
  /\ UNCHANGED <<pool_size, frames, free_list, hand, guards, ret, last_fetch,
                 harness, lock, arg, local, snap, pageVars>>

\* fetch_page: Update Metadata and page_mapping.insert
CFetchMeta(t) ==
  /\ pc[t] = "f_meta"
  /\ frames' = [frames EXCEPT ![local[t]].page_id = arg[t],
                              ![local[t]].pin_count = 1,
                              ![local[t]].is_dirty = FALSE]
  /\ page_mapping' = MapInsert(page_mapping, arg[t], local[t])
  /\ pc' = [pc EXCEPT ![t] = "f_ret"]
  /\ UNCHANGED <<pool_size, free_list, hand, guards, ret, last_fetch, harness,
                 lock, arg, local, snap, pageVars>>

\* fetch_page returns: the MutexGuard goes out of scope, the caller keeps
\* the PageFrameRef if there is one
CFetchReturn(t) ==
  /\ pc[t] = "f_ret"
  /\ lock' = NoThread
  /\ guards' = IF local[t] = None THEN guards
               ELSE [guards EXCEPT ![<<arg[t], local[t]>>] = @ + 1]
  /\ pc' = [pc EXCEPT ![t] = "idle"]
  /\ arg' = [arg EXCEPT ![t] = None]
  /\ local' = [local EXCEPT ![t] = None]
  /\ snap' = NoSnap
  /\ UNCHANGED <<pool_size, poolVars, ret, last_fetch, harness, pageVars>>

\* unpin_page: the body under the lock
CUnpinBody(t) ==
  /\ pc[t] = "u_body"
  /\ frames' = unpin_page(PoolState, arg[t], FALSE).frames
  /\ pc' = [pc EXCEPT ![t] = "u_ret"]
  /\ UNCHANGED <<pool_size, page_mapping, free_list, hand, guards, ret,
                 last_fetch, harness, lock, arg, local, snap, pageVars>>

\* unpin_page returns: the MutexGuard goes out of scope
CUnpinReturn(t) ==
  /\ pc[t] = "u_ret"
  /\ lock' = NoThread
  /\ pc' = [pc EXCEPT ![t] = "idle"]
  /\ arg' = [arg EXCEPT ![t] = None]
  /\ snap' = NoSnap
  /\ UNCHANGED <<pool_size, poolVars, guards, ret, last_fetch, harness, local,
               pageVars>>

CNext ==
  \/ \E t \in Threads, page_id \in PageIds : CFetchCall(t, page_id)
  \/ \E t \in Threads, g \in DOMAIN guards : CDropCall(t, g)
  \/ \E t \in Threads : CLock(t)
  \/ \E t \in Threads : CFetchLookup(t)
  \/ \E t \in Threads : CFetchHit(t)
  \/ \E t \in Threads : CFetchFind(t)
  \/ \E t \in Threads : CFetchEvict(t)
  \/ \E t \in Threads : CFetchMeta(t)
  \/ \E t \in Threads : CFetchReturn(t)
  \/ \E t \in Threads : CUnpinBody(t)
  \/ \E t \in Threads : CUnpinReturn(t)

ConcSpec == CInit /\ [][CNext]_vars

\* the statements of a call that run with the mutex held, up to the return
CBody(t) ==
  \/ CFetchLookup(t)
  \/ CFetchHit(t)
  \/ CFetchFind(t)
  \/ CFetchEvict(t)
  \/ CFetchMeta(t)
  \/ CFetchReturn(t)
  \/ CUnpinBody(t)
  \/ CUnpinReturn(t)

\* BufferPoolManager::new(1): with a single frame one live guard pins the
\* whole pool, and what a call waits for does not depend on the frame count
FInit == CInit /\ pool_size = 1

\* ConcSpec on that pool, with a scheduler that keeps running a thread
\* inside a call and a mutex that is fair: a thread that finds the mutex
\* free again and again gets it.  Nothing makes a thread start a call or
\* drop a guard.
ConcFairSpec ==
  /\ FInit
  /\ [][CNext]_vars
  /\ \A t \in Threads : SF_vars(CLock(t)) /\ WF_vars(CBody(t))

\* ------------------------------------------------- one Page on its own
\* arguments the Page operations are called with
AllocSizes ==
  {0, 100, 4000, PAGE_SIZE - HEADER_SIZE, PAGE_SIZE - HEADER_SIZE + 1}
OpsSizes == {0, 4000, PAGE_SIZE - HEADER_SIZE + 1}
WriteOffsets == {20, 28, HEADER_SIZE, PAGE_SIZE - 1, PAGE_SIZE}
WriteData == {<<0>>, <<1, 32>>}
Pointers == {ToLE(0, 4), ToLE(HEADER_SIZE, 4), ToLE(PAGE_SIZE, 4)}
Lsns == {ToLE(0, 8), ToLE(1, 8)}
NewPageIds == {0, MaxPage}

\* the variables of the pool, which no Page operation touches
restVars == <<pool_size, poolVars, guards, ret, last_fetch, harness,
              concVars>>

\* Page::new(page_id, page_type) on a page that is in no pool
PageInit ==
  /\ page \in {Page_new(ToLE(id, 8), ToLE(t, 2)) :
                 id \in NewPageIds, t \in PageTypes}
  /\ pret = NoPRet
  /\ pool_size = 1
  /\ frames = [f \in 0..0 |-> PageDefault]
  /\ page_mapping = <<>>
  /\ free_list = <<0>>
  /\ hand = 0
  /\ guards = NoGuards
  /\ ret = [op |-> "new", page_id |-> None, result |-> None, kind |-> "none",
            prev |-> None, pre_pin |-> 0, all_pinned |-> FALSE,
            pre_free |-> 0, mapped |-> FALSE, inspected |-> 0, pre |-> NoPre]
  /\ last_fetch = [p \in PageIds |-> None]
  /\ harness = TRUE
  /\ ConcIdle

\* page.allocate(size); counted: the sizes handed out so far are summed.
\* A pointer above PAGE_SIZE can advance through all of u32; the runs stop
\* calling allocate once it is above MaxPointer.
AllocateCall(size, counted) ==
  /\ Small(get_free_space_pointer(page))
  /\ Val16(get_free_space_pointer(page)) <= MaxPointer
  /\ \E o \in allocate(page, size) :
       /\ page' = o.page
       /\ pret' = IF counted
                  THEN [NoPRet EXCEPT !.op = "allocate", !.arg = size,
                                      !.ok = o.ok, !.result = o.result,
                                      !.panicked = o.panicked,
                                      !.total = IF o.ok THEN pret.total + size
                                                ELSE pret.total]
                  ELSE [NoPRet EXCEPT !.op = "allocate", !.ok = o.ok,
                                      !.panicked = o.panicked]
  /\ UNCHANGED restVars

PAllocate(size) == AllocateCall(size, FALSE)
PAllocateCounted(size) == AllocateCall(size, TRUE)

\* page.write_at(offset, bytes)
PWriteAt(offset, bytes) ==
  /\ LET o == write_at(page, offset, bytes) IN
       /\ page' = o.page
       /\ pret' = [NoPRet EXCEPT !.op = "write_at", !.ok = o.ok]
  /\ UNCHANGED restVars

\* page.reset()
PReset ==
  /\ page' \in reset(page)
  /\ pret' = [NoPRet EXCEPT !.op = "reset", !.pre = page]
  /\ UNCHANGED restVars

\* page.pin(); pin_count is a u32, the runs stop at MaxPin
PPin ==
  /\ page.pin_count < MaxPin
  /\ page' = pin(page)
  /\ pret' = [NoPRet EXCEPT !.op = "pin"]
  /\ UNCHANGED restVars

\* page.unpin(): the assert on line 171 aborts the call at pin_count 0
PUnpin ==
  /\ IF page.pin_count > 0
     THEN page' = unpin(page) /\ pret' = [NoPRet EXCEPT !.op = "unpin"]
     ELSE page' = page
          /\ pret' = [NoPRet EXCEPT !.op = "unpin", !.ok = FALSE,
                                    !.panicked = TRUE]
  /\ UNCHANGED restVars

\* the setters; each leaves op "set" behind
PSetPageId(id) ==
  /\ page' = set_page_id(page, ToLE(id, 8))
  /\ pret' = [NoPRet EXCEPT !.op = "set"]
  /\ UNCHANGED restVars

PSetLsn(lsn) ==
  /\ page' = set_lsn(page, lsn)
  /\ pret' = [NoPRet EXCEPT !.op = "set"]
  /\ UNCHANGED restVars

PSetFreeSpacePointer(pointer) ==
  /\ page' = set_free_space_pointer(page, pointer)
  /\ pret' = [NoPRet EXCEPT !.op = "set"]
  /\ UNCHANGED restVars

PSetPinCount(count) ==
  /\ page' = set_pin_count(page, count)
  /\ pret' = [NoPRet EXCEPT !.op = "set"]
  /\ UNCHANGED restVars

PSetDirty(dirty) ==
  /\ page' = set_dirty(page, dirty)
  /\ pret' = [NoPRet EXCEPT !.op = "set"]
  /\ UNCHANGED restVars

\* a fresh page and nothing but allocate calls
AllocNext == \E size \in AllocSizes : PAllocateCounted(size)
AllocSpec == PageInit /\ [][AllocNext]_vars

\* allocate, write_at and reset
PageOpsNext ==
  \/ \E size \in OpsSizes : PAllocate(size)
  \/ \E offset \in WriteOffsets, bytes \in WriteData : PWriteAt(offset, bytes)
  \/ PReset
PageOpsSpec == PageInit /\ [][PageOpsNext]_vars

\* every operation of Page that changes it
PageNext ==
  \/ PageOpsNext
  \/ PPin
  \/ PUnpin
  \/ \E id \in NewPageIds : PSetPageId(id)
  \/ \E lsn \in Lsns : PSetLsn(lsn)
  \/ \E pointer \in Pointers : PSetFreeSpacePointer(pointer)
  \/ \E count \in {0, MaxPin} : PSetPinCount(count)
  \/ \E dirty \in BOOLEAN : PSetDirty(dirty)
PageSpec == PageInit /\ [][PageNext]_vars

\* ------------------------------------------------------------ helpers
\* frame f has left the free list (a page was loaded into it)
Used(f) == \A i \in 1..Len(free_list) : free_list[i] # f

\* frame at cyclic distance k from the hand a victim call started at
At(k) == (ret.pre.hand + k) % pool_size

\* ================================================================ claims

\* C1: every live guard (page_id p, frame f) still finds frames[f] holding p
\* with pin count > 0: a frame with a live guard is never rebound.
C1_GuardedFrameKept ==
  \A g \in DOMAIN guards :
    guards[g] > 0 =>
      /\ frames[g[2]].page_id = g[1]
      /\ frames[g[2]].pin_count > 0

\* C2: the pin count of each frame equals the number of live guards bound to
\* that frame (so with no live guard, every pin count is 0).
C2_PinCountIsLiveGuards ==
  \A f \in FrameIds : frames[f].pin_count = GuardsOn(f)

\* C3: ClockReplacer::victim never returns a frame whose pin count is > 0,
\* and no miss of fetch_page reuses a frame whose pin count is > 0.
C3_VictimNeverPinned ==
  /\ (ret.op = "victim" /\ ret.result # None)
       => ret.pre.frames[ret.result].pin_count = 0
  /\ (ret.op = "fetch" /\ ret.kind \in {"free", "victim"})
       => ret.pre_pin = 0

\* victim was called with the hand on a pinned frame and returned a frame
C3_Witness ==
  /\ ret.op = "victim"
  /\ ret.result # None
  /\ ret.pre.frames[ret.pre.hand].pin_count > 0

\* thread t is between acquiring the mutex and returning
InBody(t) == pc[t] \notin {"idle", "f_lock", "u_lock"}

\* C4: every call holds the pool mutex from its first read to its last write
\* of pool state; what a call leaves behind and returns is what the same call
\* does when run alone on the state it found when it took the mutex (so the
\* calls take effect in the serial order of their lock acquisitions); two
\* misses in flight never hold the same selected frame, and no two page ids
\* are mapped to one frame.
C4_Serialized ==
  /\ \A t \in Threads : InBody(t) => lock = t
  /\ \A t \in Threads :
       pc[t] = "f_ret" =>
         LET r == fetch_page(snap, arg[t], pool_size) IN
         PoolState = r.state /\ local[t] = r.result
  /\ \A t \in Threads :
       pc[t] = "u_ret" => PoolState = unpin_page(snap, arg[t], FALSE)
  /\ \A t, u \in Threads :
       (t # u /\ pc[t] \in {"f_evict", "f_meta"}
              /\ pc[u] \in {"f_evict", "f_meta"}) => local[t] # local[u]
  /\ \A p, q \in DOMAIN page_mapping :
       p # q => page_mapping[p] # page_mapping[q]

\* two misses for different unmapped pages in flight at the same time: one
\* has selected its frame, the other waits for the mutex
C4_Witness ==
  \E t, u \in Threads :
    /\ t # u
    /\ pc[t] = "f_meta"
    /\ pc[u] = "f_lock"
    /\ arg[u] # arg[t]
    /\ arg[u] \notin DOMAIN page_mapping

\* C5: the mapping is a bijection between resident page ids and the frames
\* holding them: every loaded frame's page id is mapped to that frame, and no
\* page id is held by two loaded frames.
C5_MappingBijective ==
  /\ \A f \in FrameIds :
       Used(f) => /\ frames[f].page_id \in DOMAIN page_mapping
                  /\ page_mapping[frames[f].page_id] = f
  /\ \A f1, f2 \in FrameIds :
       (Used(f1) /\ Used(f2) /\ f1 # f2)
          => frames[f1].page_id # frames[f2].page_id
  /\ \A p \in DOMAIN page_mapping :
       Used(page_mapping[p]) /\ frames[page_mapping[p]].page_id = p

\* C6: a fetch_page(p) that returns a guard, after an earlier fetch_page(p)
\* that returned a guard and with no eviction in between (last_fetch[p] is
\* that earlier frame), returns the same frame and raises its pin count by
\* one.
C6_SameFrameTwice ==
  (ret.op = "fetch" /\ ret.result # None /\ ret.prev # None)
     => /\ ret.result = ret.prev
        /\ frames[ret.result].pin_count = ret.pre_pin + 1

\* C7: with all pool_size frames pinned, fetch_page of an unmapped page id
\* returns None.
C7_AllPinnedAbsent ==
  (ret.op = "fetch" /\ ret.all_pinned /\ ~ret.mapped) => ret.result = None

C7_Witness ==
  /\ ret.op = "fetch"
  /\ ret.all_pinned
  /\ ~ret.mapped
  /\ ret.result = None
  /\ pool_size > 1

\* C8: fetch_page of an unmapped page id returns None only when the free list
\* is empty and every frame has pin count > 0.
C8_AbsentOnlyWhenSaturated ==
  (ret.op = "fetch" /\ ret.result = None)
     => (ret.pre_free = 0 /\ ret.all_pinned)

\* C9: after every successful fetch_page the returned frame has its reference
\* bit set; after a miss it also has page_id = the requested id, pin count 1,
\* dirty = false, and the mapping holds requested id -> frame.
C9_FetchMetadata ==
  (ret.op = "fetch" /\ ret.result # None) =>
    /\ frames[ret.result].ref_bit
    /\ ret.kind # "hit" =>
         /\ frames[ret.result].page_id = ret.page_id
         /\ frames[ret.result].pin_count = 1
         /\ ~frames[ret.result].is_dirty
         /\ ret.page_id \in DOMAIN page_mapping
         /\ page_mapping[ret.page_id] = ret.result

\* C10: second chance. If the frames from the hand h up to the first frame
\* with a clear reference bit are all unpinned, victim returns that frame,
\* clears the reference bit of the frames before it, changes nothing else and
\* leaves the hand one past the victim. If every frame is unpinned with its
\* reference bit set, victim clears every bit and returns the frame at h.
C10_SecondChance ==
  ret.op = "victim" =>
    /\ \A k \in 0..(pool_size - 1) :
         ( /\ \A j \in 0..(k - 1) : /\ ret.pre.frames[At(j)].pin_count = 0
                                    /\ ret.pre.frames[At(j)].ref_bit
           /\ ret.pre.frames[At(k)].pin_count = 0
           /\ ~ret.pre.frames[At(k)].ref_bit )
         => /\ ret.result = At(k)
            /\ hand = (At(k) + 1) % pool_size
            /\ frames = [f \in FrameIds |->
                 IF \E j \in 0..(k - 1) : f = At(j)
                 THEN [ret.pre.frames[f] EXCEPT !.ref_bit = FALSE]
                 ELSE ret.pre.frames[f]]
    /\ (\A f \in FrameIds : /\ ret.pre.frames[f].pin_count = 0
                            /\ ret.pre.frames[f].ref_bit)
         => /\ ret.result = ret.pre.hand
            /\ hand = (ret.pre.hand + 1) % pool_size
            /\ frames = [f \in FrameIds |->
                 [ret.pre.frames[f] EXCEPT !.ref_bit = FALSE]]

\* pool_size 3, all unpinned, reference bits [true, true, false], hand 0:
\* victim 2, all bits clear, hand back at 0
C10_Witness ==
  /\ ret.op = "victim"
  /\ pool_size = 3
  /\ ret.pre.hand = 0
  /\ \A f \in FrameIds : ret.pre.frames[f].pin_count = 0
  /\ ret.pre.frames[0].ref_bit /\ ret.pre.frames[1].ref_bit
  /\ ~ret.pre.frames[2].ref_bit
  /\ ret.result = 2
  /\ hand = 0
  /\ \A f \in FrameIds : ~frames[f].ref_bit

\* C11: dirty data is never discarded. The source has no flush (the
\* disk_manager calls are commented out), so no step may clear a dirty flag.
C11_DirtyNeverDiscarded ==
  [][\A f \in FrameIds : frames[f].is_dirty => frames'[f].is_dirty]_vars

\* C12: no pin count is ever negative; unpin_page on a mapped page with pin
\* count 0 leaves it 0; unpin_page on an unmapped page id changes no pin
\* count.
C12_PinNeverNegative ==
  /\ [](\A f \in FrameIds : frames[f].pin_count >= 0)
  /\ [][(ret'.op = "unpin" /\ ret'.mapped /\ ret'.pre_pin = 0)
          => frames'[ret'.result].pin_count = 0]_vars
  /\ [][(ret'.op = "unpin" /\ ~ret'.mapped)
          => \A f \in FrameIds :
               frames'[f].pin_count = frames[f].pin_count]_vars

\* unpin_page was called on a mapped page whose pin count was already 0
C12_Witness ==
  /\ ret.op = "unpin"
  /\ ret.mapped
  /\ ret.pre_pin = 0
  /\ frames[ret.result].pin_count = 0

\* C19: the mapping is injective; every entry p -> f has frames[f].page_id = p
\* and f outside the free list; every frame in the free list has pin count 0;
\* the mapping has at most pool_size - len(free_list) entries.
C19_MappingShape ==
  /\ \A p, q \in DOMAIN page_mapping :
       p # q => page_mapping[p] # page_mapping[q]
  /\ \A p \in DOMAIN page_mapping :
       /\ page_mapping[p] \in FrameIds
       /\ frames[page_mapping[p]].page_id = p
       /\ Used(page_mapping[p])
  /\ \A i \in 1..Len(free_list) : frames[free_list[i]].pin_count = 0
  /\ Cardinality(DOMAIN page_mapping) <= pool_size - Len(free_list)

\* the free list is empty, the mapping is full and a page was evicted
C19_Witness ==
  /\ free_list = <<>>
  /\ Cardinality(DOMAIN page_mapping) = pool_size
  /\ pool_size > 1
  /\ ret.op = "fetch"
  /\ ret.kind = "victim"

\* C16: with the free list empty and at least one frame unpinned, fetch_page
\* of an unmapped page id, repeated with nothing in between, returns a guard
\* by the second attempt at the latest.
C16_RetrySucceeds ==
  (free_list = <<>> /\ \E f \in FrameIds : frames[f].pin_count = 0) =>
    \A p \in PageIds \ DOMAIN page_mapping :
      LET r1 == fetch_page(PoolState, p, pool_size) IN
         \/ r1.result # None
         \/ fetch_page(r1.state, p, pool_size).result # None

\* a first attempt has just failed with an unpinned frame in the pool, and
\* the second attempt returns a guard
C16_Witness ==
  /\ ret.op = "fetch"
  /\ ret.result = None
  /\ ~ret.all_pinned
  /\ \E f \in FrameIds : frames[f].pin_count = 0
  /\ fetch_page(PoolState, ret.page_id, pool_size).result # None

\* C17: a miss takes the head of the free list whenever the free list is
\* non-empty and then leaves the hand and all reference bits unchanged;
\* victim is consulted only when the free list is empty; frames leave the
\* free list in index order 0, 1, .., pool_size - 1 and never re-enter it.
C17_FreeListFirst ==
  /\ [](free_list = [i \in 1..Len(free_list) |->
                       pool_size - Len(free_list) + i - 1])
  /\ [][Len(free_list') <= Len(free_list)]_vars
  /\ [][(ret'.op = "fetch" /\ ~ret'.mapped /\ free_list # <<>>)
          => /\ ret'.kind = "free"
             /\ ret'.result = Head(free_list)
             /\ free_list' = Tail(free_list)
             /\ hand' = hand
             /\ \A f \in FrameIds : frames'[f].ref_bit = frames[f].ref_bit]_vars
  /\ [][(ret'.op = "fetch" /\ ret'.kind \in {"victim", "none"})
          => free_list = <<>>]_vars

\* the last frame has just left the free list, after the frames before it
C17_Witness ==
  /\ ret.op = "fetch"
  /\ ret.kind = "free"
  /\ pool_size > 1
  /\ ret.result = pool_size - 1
  /\ free_list = <<>>
  /\ hand = 0

\* C18: victim only clears reference bits and moves the hand: it never sets
\* a reference bit, never changes the reference bit of a pinned frame, and
\* leaves pin counts, page ids, dirty flags, the mapping and the free list
\* unchanged.
C18_VictimOnlyClears ==
  [][ret'.op = "victim" =>
       /\ \A f \in FrameIds :
            /\ frames'[f].ref_bit => frames[f].ref_bit
            /\ frames[f].pin_count > 0
                 => frames'[f].ref_bit = frames[f].ref_bit
            /\ frames'[f].pin_count = frames[f].pin_count
            /\ frames'[f].page_id = frames[f].page_id
            /\ frames'[f].is_dirty = frames[f].is_dirty
       /\ page_mapping' = page_mapping
       /\ free_list' = free_list]_vars

\* victim cleared the bit of an unpinned frame and passed a pinned frame
\* whose bit is still set
C18_Witness ==
  /\ ret.op = "victim"
  /\ \E f \in FrameIds : /\ ret.pre.frames[f].pin_count > 0
                         /\ ret.pre.frames[f].ref_bit
                         /\ frames[f].ref_bit
  /\ \E f \in FrameIds : /\ ret.pre.frames[f].ref_bit
                         /\ ~frames[f].ref_bit

\* C20: a fetch_page that fails because every frame is pinned leaves the
\* mapping, the free list, every frame and the clock hand as they were.
C20_FailedFetchNoChange ==
  [][(ret'.op = "fetch" /\ ret'.result = None /\ ret'.all_pinned)
       => UNCHANGED poolVars]_vars

\* a fetch failed with every frame pinned and the hand away from frame 0
C20_Witness ==
  /\ ret.op = "fetch"
  /\ ret.result = None
  /\ ret.all_pinned
  /\ hand # 0

\* C13: on a freshly constructed page every successful allocate(size)
\* returns the free-space pointer as it was before the call, which is
\* HEADER_SIZE plus the sizes handed out before, and advances the pointer by
\* exactly size; a call with size > PAGE_SIZE - free_space_pointer returns
\* absent and leaves the pointer unchanged.
C13_BumpAllocator ==
  /\ []((pret.op = "allocate" /\ pret.ok)
          => /\ Small(pret.result)
             /\ Val16(pret.result) = HEADER_SIZE + pret.total - pret.arg)
  /\ [][pret'.op = "allocate" =>
          LET fsp == get_free_space_pointer(page)
              fsp2 == get_free_space_pointer(page') IN
          /\ ~pret'.panicked
          /\ Small(fsp) /\ Small(fsp2)
          /\ IF pret'.arg <= PAGE_SIZE - Val16(fsp)
             THEN /\ pret'.ok
                  /\ pret'.result = fsp
                  /\ Val16(fsp2) = Val16(fsp) + pret'.arg
             ELSE /\ ~pret'.ok
                  /\ pret'.result = <<>>
                  /\ fsp2 = fsp]_vars

\* a second allocation succeeded behind a first one of non-zero size
C13_Witness ==
  /\ pret.op = "allocate"
  /\ pret.ok
  /\ pret.arg > 0
  /\ pret.total > pret.arg
  /\ Val16(pret.result) > HEADER_SIZE

\* C14: under allocate, write_at and reset on a page made by Page::new,
\* HEADER_SIZE <= free_space_pointer <= PAGE_SIZE in every reachable state.
C14_FreeSpacePointerInRange ==
  LET fsp == get_free_space_pointer(page) IN
  /\ Small(fsp)
  /\ HEADER_SIZE <= Val16(fsp)
  /\ Val16(fsp) <= PAGE_SIZE

\* C15 as stated: reset preserves the header's page id and page type,
\* zeroes all other header fields and every byte of the Data region, and
\* sets dirty = false, pin count = 0, reference bit = false.
C15_ResetZeroesOtherFields ==
  pret.op = "reset" =>
    LET h == get_header(page.data)
        g == get_header(pret.pre.data) IN
    /\ h.page_id = g.page_id
    /\ h.page_type = g.page_type
    /\ h.lsn = ToLE(0, 8)
    /\ h.checksum = ToLE(0, 4)
    /\ h.free_space_pointer = ToLE(0, 4)
    /\ h.item_count = ToLE(0, 4)
    /\ h.padding = ToLE(0, 2)
    /\ \A i \in DOMAIN page.data : i < HEADER_SIZE
    /\ ~page.is_dirty
    /\ page.pin_count = 0
    /\ ~page.ref_bit

\* C15, amended: reset preserves the header's page id, preserves the page
\* type whenever the stored tag is one of the three PageType values, sets
\* the free-space pointer to HEADER_SIZE, zeroes lsn, checksum, item count,
\* padding and every byte of the Data region, and sets dirty = false,
\* pin count = 0, reference bit = false.
C15_ResetReinitialises ==
  pret.op = "reset" =>
    LET h == get_header(page.data)
        g == get_header(pret.pre.data) IN
    /\ h.page_id = g.page_id
    /\ (Small(g.page_type) /\ Val16(g.page_type) \in PageTypes)
         => h.page_type = g.page_type
    /\ h.lsn = ToLE(0, 8)
    /\ h.checksum = ToLE(0, 4)
    /\ h.free_space_pointer = ToLE(HEADER_SIZE, 4)
    /\ h.item_count = ToLE(0, 4)
    /\ h.padding = ToLE(0, 2)
    /\ \A i \in DOMAIN page.data : i < HEADER_SIZE
    /\ ~page.is_dirty
    /\ page.pin_count = 0
    /\ ~page.ref_bit

\* reset ran on a dirty, pinned page with a moved free-space pointer, a set
\* lsn and bytes in the Data region
C15_Witness ==
  /\ pret.op = "reset"
  /\ pret.pre.is_dirty
  /\ pret.pre.pin_count > 0
  /\ get_header(pret.pre.data).free_space_pointer # ToLE(HEADER_SIZE, 4)
  /\ get_header(pret.pre.data).lsn # ToLE(0, 8)
  /\ \E i \in DOMAIN pret.pre.data : i >= HEADER_SIZE
  /\ get_header(pret.pre.data).page_type = ToLE(Relationship, 2)
  /\ get_header(page.data).page_type = ToLE(Relationship, 2)

\* C21: for every pool_size >= 1, hand position and configuration of pin
\* counts and reference bits, victim returns after inspecting at most
\* 2 * pool_size frames, with a frame index in [0, pool_size) or no victim.
C21_VictimBounded ==
  ret.op = "victim" =>
    /\ ret.inspected >= 1
    /\ ret.inspected <= 2 * pool_size
    /\ ret.result = None \/ ret.result \in FrameIds

\* victim needed two full sweeps: it found its frame at inspection
\* 2 * pool_size, having passed pinned frames on the way
C21_Witness ==
  /\ ret.op = "victim"
  /\ pool_size > 1
  /\ ret.inspected = 2 * pool_size
  /\ ret.result \in FrameIds
  /\ \E f \in FrameIds : ret.pre.frames[f].pin_count > 0

\* C22: under a fair mutex every fetch_page and unpin_page call acquires the
\* mutex and returns, whatever guards are held and never dropped; and in no
\* reachable state is a call stuck: a thread inside a call can take a step,
\* or the thread holding the mutex can.
C22_NoCallBlocks ==
  /\ \A t \in Threads : (pc[t] # "idle") ~> (pc[t] = "idle")
  /\ [](\A t \in Threads :
          pc[t] # "idle" =>
            \/ ENABLED (CLock(t) \/ CBody(t))
            \/ lock \in Threads /\ lock # t /\ ENABLED CBody(lock))

\* a fetch_page is about to return absent because every frame is pinned by
\* guards nobody drops, while another thread waits for the mutex
C22_Witness ==
  \E t, u \in Threads :
    /\ t # u
    /\ pc[t] = "f_ret"
    /\ local[t] = None
    /\ LiveGuards > 0
    /\ \A f \in FrameIds : frames[f].pin_count > 0
    /\ pc[u] \in {"f_lock", "u_lock"}

====
